---------------------------- MODULE Spec2Model ----------------------------
(***************************************************************************)
(* Model of the finance-analyzer core: statement extraction                *)
(* (src/src/pdf_to_csv.py), enrichment (src/src/Data_enrichment.py), the   *)
(* insight queries (src/src/insights.py) and grouping                      *)
(* (src/src/charts.py).                                                    *)
(*                                                                         *)
(* Text is modelled as a sequence of one-character strings, so that the    *)
(* regular expressions, str.lower, the substring test and the sort order   *)
(* of group keys are computed character by character.  Amounts are         *)
(* fixed-point numbers counted in paise (1/100 rupee).                     *)
(***************************************************************************)
EXTENDS Integers, Sequences, FiniteSets, TLC

VARIABLES
    \* --- extraction (pdf_to_csv / pdf_to_dataframe) ---
    pages,          \* the document: a sequence of pages, each a sequence of lines
    pageIdx,        \* index of the page being scanned
    lineIdx,        \* index of the next line of that page
    transactions,   \* the list built by pdf_to_csv
    pc,             \* position of the extraction call
    csv,            \* the CSV file written by pdf_to_csv
    raw_df,         \* the frame returned by pdf_to_dataframe
    error,          \* the exception that ended the call, "" if none
    \* --- enrichment and queries (enrich, insights, aggregate_data) ---
    input_df,       \* the raw frame handed to enrich
    map_arg,        \* the category_map argument of enrich
    df,             \* the enriched dataset the queries read, None before enrich
    result,         \* the last query: its name, arguments and outcome
    \* --- map_spend_bucket ---
    bucket_arg,     \* the amount argument
    bucket_out,     \* the label returned, <<>> before the call
    \* --- map_category ---
    cat_merchant,   \* the merchant argument
    cat_rules,      \* the category_map argument
    cat_out,        \* the category returned, <<>> before the call
    \* --- safe_to_float ---
    float_arg,      \* the cell handed to safe_to_float
    float_out,      \* the call made on it and the number it gave
    \* --- the session of app.py ---
    page,           \* st.session_state.page
    uploaded_file,  \* the file in the uploader: its pages, or no file
    section,        \* the section chosen in the sidebar
    run,            \* position of the script run
    event,          \* the user action the last script run handled
    shown           \* what the last finished script run rendered

extractVars == <<pages, pageIdx, lineIdx, transactions, pc, csv, raw_df, error>>

insightVars == <<input_df, map_arg, df, result>>

bucketVars == <<bucket_arg, bucket_out>>

categoryVars == <<cat_merchant, cat_rules, cat_out>>

floatVars == <<float_arg, float_out>>

appVars == <<page, uploaded_file, section, run, event, shown>>

vars == <<extractVars, insightVars, bucketVars, categoryVars, floatVars, appVars>>

-----------------------------------------------------------------------------
(* Characters and strings *)

UpperChars ==
    <<"A", "B", "C", "D", "E", "F", "G", "H", "I", "J", "K", "L", "M",
      "N", "O", "P", "Q", "R", "S", "T", "U", "V", "W", "X", "Y", "Z">>

LowerChars ==
    <<"a", "b", "c", "d", "e", "f", "g", "h", "i", "j", "k", "l", "m",
      "n", "o", "p", "q", "r", "s", "t", "u", "v", "w", "x", "y", "z">>

DigitChars == <<"0", "1", "2", "3", "4", "5", "6", "7", "8", "9">>

Rupee == "₹"

Range(s) == { s[i] : i \in 1..Len(s) }

\* [A-Za-z]
IsAlpha(c) == c \in Range(UpperChars) \cup Range(LowerChars)

\* \d
IsDigit(c) == c \in Range(DigitChars)

\* \s
IsSpace(c) == c \in {" ", "\t"}

\* the value of a digit character
DigitVal(c) == (CHOOSE i \in 1..10 : DigitChars[i] = c) - 1

\* amounts are counted in paise
Rupees(n) == n * 100

\* the missing value of a text column (NaN)
NaN == <<"NaN">>

\* str.startswith
StartsWith(s, prefix) ==
    /\ Len(s) >= Len(prefix)
    /\ SubSeq(s, 1, Len(prefix)) = prefix

\* the literal lit occurs in s at position p
MatchAt(s, p, lit) ==
    /\ p >= 1
    /\ p + Len(lit) - 1 <= Len(s)
    /\ SubSeq(s, p, p + Len(lit) - 1) = lit

\* str.strip
RECURSIVE LStrip(_)
LStrip(s) == IF s # <<>> /\ IsSpace(Head(s)) THEN LStrip(Tail(s)) ELSE s

RECURSIVE RStrip(_)
RStrip(s) ==
    IF s # <<>> /\ IsSpace(s[Len(s)]) THEN RStrip(SubSeq(s, 1, Len(s) - 1)) ELSE s

Strip(s) == RStrip(LStrip(s))

\* str.replace(c, "")
RemoveChar(s, c) == SelectSeq(s, LAMBDA x : x # c)

\* the number written by a non-empty string of decimal digits
RECURSIVE DigitsValue(_)
DigitsValue(s) ==
    IF s = <<>> THEN 0
    ELSE 10 * DigitsValue(SubSeq(s, 1, Len(s) - 1)) + DigitVal(s[Len(s)])

\* the decimal digits of a natural number
RECURSIVE NatDigits(_)
NatDigits(n) ==
    IF n < 10 THEN <<DigitChars[n + 1]>>
    ELSE NatDigits(n \div 10) \o <<DigitChars[(n % 10) + 1]>>

-----------------------------------------------------------------------------
(* Extraction: src/src/pdf_to_csv.py *)

\* re.match(r"[A-Za-z]{3,4}\s\d{2}", line)
CoarseMatch(line) ==
    \E n \in {3, 4} :
        /\ Len(line) >= n + 3
        /\ \A i \in 1..n : IsAlpha(line[i])
        /\ IsSpace(line[n + 1])
        /\ IsDigit(line[n + 2])
        /\ IsDigit(line[n + 3])

PageMarker == <<"P", "a", "g", "e">>

\* the condition of line 14
PassesCoarse(line) == CoarseMatch(line) /\ ~StartsWith(line, PageMarker)

\* ends (one past the last character) of [A-Za-z]{3,4}\s\d{1,2},\s20\d{2}
\* matched at position p
DateEnds(line, p) ==
    { q \in (p + 11)..(p + 13) :
        /\ q <= Len(line) + 1
        /\ \E n \in {3, 4}, d \in {1, 2} :
              /\ q = p + n + d + 7
              /\ \A i \in p..(p + n - 1) : IsAlpha(line[i])
              /\ IsSpace(line[p + n])
              /\ \A i \in (p + n + 1)..(p + n + d) : IsDigit(line[i])
              /\ line[p + n + d + 1] = ","
              /\ IsSpace(line[p + n + d + 2])
              /\ line[p + n + d + 3] = "2"
              /\ line[p + n + d + 4] = "0"
              /\ IsDigit(line[p + n + d + 5])
              /\ IsDigit(line[p + n + d + 6]) }

\* the group (...)+ : <<start of the last repetition, end>> of every chain of
\* one or more date shapes that starts at p
RECURSIVE DateGroup(_, _)
DateGroup(line, p) ==
    UNION { {<<p, q>>} \cup DateGroup(line, q) : q \in DateEnds(line, p) }

\* the literal "Paid to " of the pattern
PaidTo == <<"P", "a", "i", "d", " ", "t", "o", " ">>

DEBIT == <<"D", "E", "B", "I", "T">>

CREDIT == <<"C", "R", "E", "D", "I", "T">>

\* [\d,]
IsAmountChar(c) == IsDigit(c) \/ c = ","

NoMatch == [matched |-> FALSE]

\* re.match of lines 15-18: the groups, or NoMatch.  A candidate is the
\* positions of the groups: date = [d0, d1), merchant ending before m1, the
\* type at t0
StrictMatch(line) ==
    LET n == Len(line)
        ws(a, b) == \A i \in a..b : IsSpace(line[i])
        cands ==
            { c \in
                UNION { UNION { UNION {
                    { [d0 |-> g[1], d1 |-> g[2], m1 |-> m1, t0 |-> t0, type |-> ty]
                        : ty \in { t \in {DEBIT, CREDIT} : MatchAt(line, t0, t) } }
                    : t0 \in (m1 + 1)..n }
                    : m1 \in (g[2] + Len(PaidTo) + 2)..n }
                    : g \in { h \in DateGroup(line, 1) :
                                /\ h[2] <= n
                                /\ IsSpace(line[h[2]])
                                /\ MatchAt(line, h[2] + 1, PaidTo) } } :
                \* \s+ between the merchant and the type
                /\ ws(c.m1, c.t0 - 1)
                \* \s* then the rupee sign then at least one of [\d,]
                /\ \E k \in (c.t0 + Len(c.type))..(n - 1) :
                      /\ ws(c.t0 + Len(c.type), k - 1)
                      /\ line[k] = Rupee
                      /\ IsAmountChar(line[k + 1]) }
    IN  IF cands = {} THEN NoMatch
        ELSE
            \* (.+?) is lazy: the shortest merchant that lets the rest match
            LET c == CHOOSE x \in cands : \A y \in cands : x.m1 <= y.m1
                r == CHOOSE k \in (c.t0 + Len(c.type))..(n - 1) :
                        /\ ws(c.t0 + Len(c.type), k - 1)
                        /\ line[k] = Rupee
                \* [\d,]+ is greedy: the whole run
                a1 == CHOOSE e \in (r + 1)..n :
                        /\ \A i \in (r + 1)..e : IsAmountChar(line[i])
                        /\ (e = n \/ ~IsAmountChar(line[e + 1]))
            IN  [matched |-> TRUE,
                 date |-> SubSeq(line, c.d0, c.d1 - 1),
                 merchant |-> SubSeq(line, c.d1 + Len(PaidTo) + 1, c.m1 - 1),
                 type |-> c.type,
                 amount |-> SubSeq(line, r + 1, a1)]

\* float(s) of line 25 fails on the empty string
FloatRaises(s) == s = <<>>

\* float(s) for a string of decimal digits, in paise
FloatOfDigits(s) == Rupees(DigitsValue(s))

\* the dictionary appended at lines 21-26
Transaction(m) ==
    [Date |-> m.date,
     Merchant |-> Strip(m.merchant),
     Type |-> m.type,
     Amount |-> FloatOfDigits(RemoveChar(m.amount, ","))]

\* the text to_csv writes for a float: repr, e.g. 500.0 or 12.5
FormatFloat(a) ==
    LET frac == a % 100
    IN  NatDigits(a \div 100) \o <<".">> \o
        (IF frac % 10 = 0 THEN <<DigitChars[(frac \div 10) + 1]>>
         ELSE <<DigitChars[(frac \div 10) + 1], DigitChars[(frac % 10) + 1]>>)

\* the float read_csv reads from the text written by FormatFloat
ParseFloat(text) ==
    LET dot == CHOOSE i \in 1..Len(text) : text[i] = "."
        frac == SubSeq(text, dot + 1, Len(text))
    IN  Rupees(DigitsValue(SubSeq(text, 1, dot - 1)))
        + (IF Len(frac) = 1 THEN 10 * DigitsValue(frac) ELSE DigitsValue(frac))

Columns == <<"Date", "Merchant", "Type", "Amount">>

\* the temporary file before anything is written to it (line 35)
EmptyFile == [written |-> FALSE, header |-> <<>>, rows |-> <<>>]

\* pd.DataFrame(transactions).to_csv(csv_path, index=False), line 28: a frame
\* built from an empty list has no columns, so the header line is empty
ToCsv(txns) ==
    [written |-> TRUE,
     header |-> IF txns = <<>> THEN <<>> ELSE Columns,
     rows |-> [i \in 1..Len(txns) |->
                 [Date |-> txns[i].Date,
                  Merchant |-> txns[i].Merchant,
                  Type |-> txns[i].Type,
                  Amount |-> FormatFloat(txns[i].Amount)]]]

\* pd.read_csv fails on a file without a header (EmptyDataError)
ReadCsvRaises(file) == file.header = <<>>

\* pd.read_csv of line 39: an empty cell reads as NaN
ReadCsvRows(file) ==
    [i \in 1..Len(file.rows) |->
        [Date |-> file.rows[i].Date,
         Merchant |-> IF file.rows[i].Merchant = <<>> THEN NaN
                      ELSE file.rows[i].Merchant,
         Type |-> file.rows[i].Type,
         Amount |-> ParseFloat(file.rows[i].Amount)]]

\* the loops of lines 12-13 move to the next line
Advance ==
    IF lineIdx < Len(pages[pageIdx])
    THEN /\ lineIdx' = lineIdx + 1
         /\ UNCHANGED pageIdx
    ELSE /\ pageIdx' = pageIdx + 1
         /\ lineIdx' = 1

\* one iteration of the loop body, lines 13-26
ScanLine ==
    /\ pc = "scan"
    /\ pageIdx <= Len(pages)
    /\ LET line == pages[pageIdx][lineIdx]
           m == StrictMatch(line)
       IN  IF PassesCoarse(line) /\ m.matched
           THEN IF FloatRaises(RemoveChar(m.amount, ","))
                THEN /\ error' = "ValueError"
                     /\ pc' = "raised"
                     /\ UNCHANGED <<pageIdx, lineIdx, transactions>>
                ELSE /\ transactions' = Append(transactions, Transaction(m))
                     /\ Advance
                     /\ UNCHANGED <<pc, error>>
           ELSE /\ Advance
                /\ UNCHANGED <<transactions, pc, error>>
    /\ UNCHANGED <<pages, csv, raw_df>>
    /\ UNCHANGED <<insightVars, bucketVars, categoryVars, floatVars, appVars>>

\* line 28, reached when the loops are over
WriteCsv ==
    /\ pc = "scan"
    /\ pageIdx > Len(pages)
    /\ csv' = ToCsv(transactions)
    /\ pc' = "written"
    /\ UNCHANGED <<pages, pageIdx, lineIdx, transactions, raw_df, error>>
    /\ UNCHANGED <<insightVars, bucketVars, categoryVars, floatVars, appVars>>

\* pdf_to_dataframe, line 39
ReadCsv ==
    /\ pc = "written"
    /\ IF ReadCsvRaises(csv)
       THEN /\ error' = "EmptyDataError"
            /\ pc' = "raised"
            /\ UNCHANGED raw_df
       ELSE /\ raw_df' = ReadCsvRows(csv)
            /\ pc' = "done"
            /\ UNCHANGED error
    /\ UNCHANGED <<pages, pageIdx, lineIdx, transactions, csv>>
    /\ UNCHANGED <<insightVars, bucketVars, categoryVars, floatVars, appVars>>

-----------------------------------------------------------------------------
(* Enrichment: src/src/Data_enrichment.py *)

Small == <<"S", "m", "a", "l", "l">>

Medium == <<"M", "e", "d", "i", "u", "m">>

Large == <<"L", "a", "r", "g", "e">>

Unknown == <<"U", "n", "k", "n", "o", "w", "n">>

Food == <<"F", "o", "o", "d">>

Transport == <<"T", "r", "a", "n", "s", "p", "o", "r", "t">>

Shopping == <<"S", "h", "o", "p", "p", "i", "n", "g">>

Entertainment == <<"E", "n", "t", "e", "r", "t", "a", "i", "n", "m", "e", "n",
      "t">>

Personal == <<"P", "e", "r", "s", "o", "n", "a", "l">>

Other == <<"O", "t", "h", "e", "r">>

Weekend == <<"W", "e", "e", "k", "e", "n", "d">>

Weekday == <<"W", "e", "e", "k", "d", "a", "y">>

\* the rule table, in insertion order: <<keyword, category>>
DEFAULT_CATEGORY_MAP ==
    << <<<<"s", "w", "i", "g", "g", "y">>, Food>>,
       <<<<"z", "o", "m", "a", "t", "o">>, Food>>,
       <<<<"d", "o", "m", "i", "n", "o", "s">>, Food>>,
       <<<<"u", "b", "e", "r">>, Transport>>,
       <<<<"o", "l", "a">>, Transport>>,
       <<<<"a", "m", "a", "z", "o", "n">>, Shopping>>,
       <<<<"f", "l", "i", "p", "k", "a", "r", "t">>, Shopping>>,
       <<<<"n", "e", "t", "f", "l", "i", "x">>, Entertainment>>,
       <<<<"s", "p", "o", "t", "i", "f", "y">>, Entertainment>>,
       <<<<"p", "h", "a", "r", "m">>, Personal>>,
       <<<<"c", "l", "i", "n", "i", "c">>, Personal>> >>

\* food_kw of map_category
FoodKeywords ==
    << <<"h", "o", "t", "e", "l">>,
       <<"r", "e", "s", "t", "a", "u", "r", "a", "n", "t">>,
       <<"c", "a", "f", "e">>,
       <<"d", "h", "a", "b", "a">>,
       <<"s", "n", "a", "c", "k">>,
       <<"t", "e", "a">>,
       <<"c", "o", "f", "f", "e", "e">>,
       <<"b", "a", "k", "e", "r", "y">>,
       <<"j", "u", "i", "c", "e">>,
       <<"d", "i", "n", "e">> >>

\* %b of strftime, and the month names the date parser knows
MonthAbbr ==
    << <<"J", "a", "n">>,
       <<"F", "e", "b">>,
       <<"M", "a", "r">>,
       <<"A", "p", "r">>,
       <<"M", "a", "y">>,
       <<"J", "u", "n">>,
       <<"J", "u", "l">>,
       <<"A", "u", "g">>,
       <<"S", "e", "p">>,
       <<"O", "c", "t">>,
       <<"N", "o", "v">>,
       <<"D", "e", "c">> >>

\* day_name(), Monday first
DayNames ==
    << <<"M", "o", "n", "d", "a", "y">>,
       <<"T", "u", "e", "s", "d", "a", "y">>,
       <<"W", "e", "d", "n", "e", "s", "d", "a", "y">>,
       <<"T", "h", "u", "r", "s", "d", "a", "y">>,
       <<"F", "r", "i", "d", "a", "y">>,
       <<"S", "a", "t", "u", "r", "d", "a", "y">>,
       <<"S", "u", "n", "d", "a", "y">> >>


\* codepoint order of the characters that occur in the model's text
CodeOrder ==
    <<"\t", " ", "#", ",", "-", ".">> \o DigitChars \o <<":">> \o UpperChars
        \o LowerChars \o <<Rupee>>

Ord(c) == CHOOSE i \in 1..Len(CodeOrder) : CodeOrder[i] = c

\* a < b for str: lexicographic by codepoint
RECURSIVE StrLess(_, _)
StrLess(a, b) ==
    IF b = <<>> THEN FALSE
    ELSE IF a = <<>> THEN TRUE
    ELSE IF Head(a) # Head(b) THEN Ord(Head(a)) < Ord(Head(b))
    ELSE StrLess(Tail(a), Tail(b))

LowerChar(c) ==
    IF c \in Range(UpperChars)
    THEN LowerChars[CHOOSE i \in 1..26 : UpperChars[i] = c]
    ELSE c

\* str.lower
Lower(s) == [i \in 1..Len(s) |-> LowerChar(s[i])]

\* k in m
Contains(m, k) == \E p \in 1..(Len(m) + 1) : MatchAt(m, p, k)

\* the missing value of a datetime column (NaT)
NaT == [year |-> 0, month |-> 0, day |-> 0]

\* the missing value <NA> of the UInt32 column Week_Number; ISO weeks are 1..53
NA == 0

IsLeap(y) == (y % 4 = 0 /\ y % 100 # 0) \/ y % 400 = 0

DaysInMonth(y, m) ==
    IF m = 2 THEN (IF IsLeap(y) THEN 29 ELSE 28)
    ELSE IF m \in {4, 6, 9, 11} THEN 30 ELSE 31

RECURSIVE DaysBeforeMonth(_, _)
DaysBeforeMonth(y, m) ==
    IF m = 1 THEN 0 ELSE DaysBeforeMonth(y, m - 1) + DaysInMonth(y, m - 1)

DaysBeforeYear(y) ==
    (y - 1) * 365 + ((y - 1) \div 4) - ((y - 1) \div 100) + ((y - 1) \div 400)

\* proleptic Gregorian ordinal, 0001-01-01 is day 1
Ordinal(y, m, d) == DaysBeforeYear(y) + DaysBeforeMonth(y, m) + d

\* Monday = 0 ... Sunday = 6
WeekdayOf(date) == (Ordinal(date.year, date.month, date.day) + 6) % 7

\* ordinal of the Monday that starts ISO week 1 of year y
IsoWeek1Monday(y) ==
    LET firstday == Ordinal(y, 1, 1)
        firstweekday == (firstday + 6) % 7
        monday == firstday - firstweekday
    IN  IF firstweekday > 3 THEN monday + 7 ELSE monday

\* dt.isocalendar().week
IsoWeek(date) ==
    LET today == Ordinal(date.year, date.month, date.day)
        start == IsoWeek1Monday(date.year)
    IN  IF today < start
        THEN ((today - IsoWeek1Monday(date.year - 1)) \div 7) + 1
        ELSE IF (today - start) \div 7 >= 52 /\ today >= IsoWeek1Monday(date.year + 1)
        THEN 1
        ELSE ((today - start) \div 7) + 1

\* index of the month whose abbreviation is s, case ignored; 0 if there is none
MonthIndex(s) ==
    IF \E i \in 1..12 : Lower(MonthAbbr[i]) = Lower(s)
    THEN CHOOSE i \in 1..12 : Lower(MonthAbbr[i]) = Lower(s)
    ELSE 0

\* pd.to_datetime(errors="coerce") of line 122 on text of the extractor's shape
\* "Mon D, YYYY": an unknown month or a day the month does not have gives NaT
ParseDate(text) ==
    LET n == Len(text)
        d == n - 10
    IN  IF /\ d \in {1, 2}
           /\ \A i \in 1..3 : IsAlpha(text[i])
           /\ IsSpace(text[4])
           /\ \A i \in 5..(4 + d) : IsDigit(text[i])
           /\ text[5 + d] = ","
           /\ IsSpace(text[6 + d])
           /\ \A i \in (7 + d)..n : IsDigit(text[i])
        THEN LET mon == MonthIndex(SubSeq(text, 1, 3))
                 day == DigitsValue(SubSeq(text, 5, 4 + d))
                 yr == DigitsValue(SubSeq(text, 7 + d, n))
             IN  IF mon = 0 \/ yr < 1 \/ day < 1 \/ day > DaysInMonth(yr, mon)
                 THEN NaT
                 ELSE [year |-> yr, month |-> mon, day |-> day]
        ELSE NaT

\* a number printed with at least w digits
ZeroPad(n, w) ==
    LET ds == NatDigits(n)
    IN  [i \in 1..(w - Len(ds)) |-> "0"] \o ds

\* dt.strftime("%b-%Y"), line 125
MonthLabel(date) ==
    IF date = NaT THEN NaN
    ELSE MonthAbbr[date.month] \o <<"-">> \o ZeroPad(date.year, 4)

\* dt.to_period("M").astype(str), insights.py line 15
PeriodStr(date) ==
    IF date = NaT THEN <<"N", "a", "T">>
    ELSE ZeroPad(date.year, 4) \o <<"-">> \o ZeroPad(date.month, 2)

\* dt.day.fillna(0).astype(int), line 126
DayOf(date) == IF date = NaT THEN 0 ELSE date.day

\* dt.day_name(), line 127
DayName(date) == IF date = NaT THEN NaN ELSE DayNames[WeekdayOf(date) + 1]

\* dt.isocalendar().week.astype("UInt32"), line 128
WeekNumber(date) == IF date = NaT THEN NA ELSE IsoWeek(date)

\* a cell of the Amount column: a float (in paise), a missing value, or text
FloatCell(a) == [kind |-> "float", v |-> a, s |-> <<>>]

NanCell == [kind |-> "nan", v |-> 0, s |-> <<>>]

StrCell(text) == [kind |-> "str", v |-> 0, s |-> text]

\* str(x) of line 75
StrOf(x) ==
    IF x.kind = "str" THEN x.s
    ELSE IF x.v < 0 THEN <<"-">> \o FormatFloat(-x.v)
    ELSE FormatFloat(x.v)

\* a substitution that removes '.' and '-' as well
KeepDigits(s) == SelectSeq(s, LAMBDA c : IsDigit(c))

\* re.sub(r"[^0-9\.-]", "", s), line 77
KeepNumeric(s) == SelectSeq(s, LAMBDA c : IsDigit(c) \/ c = "." \/ c = "-")

\* float(s) accepts, of the strings over digits, '.' and '-': an optional
\* leading '-', then digits with at most one '.', at least one digit
WellFormedNumber(s) ==
    LET body == IF s # <<>> /\ Head(s) = "-" THEN Tail(s) ELSE s
    IN  /\ \A i \in 1..Len(body) : body[i] # "-"
        /\ Cardinality({ i \in 1..Len(body) : body[i] = "." }) <= 1
        /\ \E i \in 1..Len(body) : IsDigit(body[i])

\* the value of a well-formed number, in paise (two decimals are kept)
NumberValue(s) ==
    LET neg == Head(s) = "-"
        body == IF neg THEN Tail(s) ELSE s
        dots == { i \in 1..Len(body) : body[i] = "." }
        dot == IF dots = {} THEN Len(body) + 1 ELSE CHOOSE i \in dots : TRUE
        frac == SubSeq(body, dot + 1, Len(body)) \o <<"0", "0">>
        mag == Rupees(DigitsValue(SubSeq(body, 1, dot - 1)))
               + DigitsValue(SubSeq(frac, 1, 2))
    IN  IF neg THEN -mag ELSE mag

safe_to_float(x) ==
    IF x.kind = "nan" THEN 0
    ELSE LET s == KeepNumeric(StrOf(x))
         IN  IF WellFormedNumber(s) THEN NumberValue(s) ELSE 0

\* re.sub(r"\s+", " ", s), line 88
RECURSIVE CollapseSpaces(_)
CollapseSpaces(s) ==
    IF s = <<>> THEN <<>>
    ELSE IF IsSpace(Head(s))
    THEN <<" ">> \o CollapseSpaces(LStrip(s))
    ELSE <<Head(s)>> \o CollapseSpaces(Tail(s))

normalize_merchant(merchant) ==
    IF merchant = NaN THEN <<>> ELSE CollapseSpaces(Strip(merchant))

\* the ranges of lines 30-34; the last one has no upper bound (float("inf"))
SPEND_BUCKETS ==
    << [lo |-> Rupees(0), hi |-> Rupees(300), bounded |-> TRUE, label |-> Small],
       [lo |-> Rupees(300), hi |-> Rupees(1000), bounded |-> TRUE, label |-> Medium],
       [lo |-> Rupees(1000), hi |-> 0, bounded |-> FALSE, label |-> Large] >>

\* the range test with an exclusive upper bound
InBucketHalfOpen(amount, b) == b.lo <= amount /\ (~b.bounded \/ amount < b.hi)

\* lo <= amount <= hi, line 93
InBucket(amount, b) == b.lo <= amount /\ (~b.bounded \/ amount <= b.hi)

map_spend_bucket(amount) ==
    LET hits == { i \in 1..Len(SPEND_BUCKETS) : InBucket(amount, SPEND_BUCKETS[i]) }
    IN  IF hits = {} THEN Unknown
        ELSE SPEND_BUCKETS[CHOOSE i \in hits : \A j \in hits : i <= j].label

\* the test of line 101: the keyword is used as written
RuleMatches(m, k) == Contains(m, k)

map_category(merchant, category_map) ==
    LET m == Lower(merchant)
        hits == { i \in 1..Len(category_map) : RuleMatches(m, category_map[i][1]) }
    IN  IF hits # {}
        THEN category_map[CHOOSE i \in hits : \A j \in hits : i <= j][2]
        ELSE IF \E i \in 1..Len(FoodKeywords) : Contains(m, FoodKeywords[i])
        THEN Food
        ELSE Other

\* the category_map argument of enrich: None, or a table
NoTable == [given |-> FALSE, table |-> <<>>]

Table(t) == [given |-> TRUE, table |-> t]

\* category_map or DEFAULT_CATEGORY_MAP, line 112: None and the empty table
\* are both falsy
EffectiveMap(arg) ==
    IF ~arg.given \/ arg.table = <<>> THEN DEFAULT_CATEGORY_MAP ELSE arg.table

\* df["Day_Of_Week"].isin(["Saturday", "Sunday"]), line 139
IsWeekend(day_name) == day_name \in {DayNames[6], DayNames[7]}

\* the row enrich builds from a raw row, lines 122-140
EnrichRow(r, cmap) ==
    LET date == ParseDate(r.Date)
        merchant == normalize_merchant(r.Merchant)
        amount == safe_to_float(r.Amount)
    IN  [Date |-> date,
         Merchant |-> merchant,
         Type |-> r.Type,
         Amount |-> amount,
         Month |-> MonthLabel(date),
         Day |-> DayOf(date),
         Day_Of_Week |-> DayName(date),
         Week_Number |-> WeekNumber(date),
         SpendBucket |-> map_spend_bucket(amount),
         Category |-> map_category(merchant, cmap),
         Is_Weekend |-> IsWeekend(DayName(date)),
         Day_Type |-> IF IsWeekend(DayName(date)) THEN Weekend ELSE Weekday]

enrich(frame, arg) ==
    [i \in 1..Len(frame) |-> EnrichRow(frame[i], EffectiveMap(arg))]

-----------------------------------------------------------------------------
(* Datasets and queries: src/src/insights.py, src/src/charts.py *)

\* a dataset argument: a frame of rows, or None
Frame(rows) == [none |-> FALSE, rows |-> rows]

NoneFrame == [none |-> TRUE, rows |-> <<>>]

\* the month argument None
None == <<"None">>

\* the outcome of a call: the exception raised ("" if none), its message with
\* the values formatted into it, and the value returned
Raise(exc, text, params) ==
    [raised |-> exc, message |-> [text |-> text, params |-> params], value |-> <<>>]

Return(v) ==
    [raised |-> "", message |-> [text |-> "", params |-> <<>>], value |-> v]

\* _validate_df, insights.py lines 5-7 and charts.py lines 5-7
ValidateRaises(d) == d.none \/ d.rows = <<>>

EmptyFrameError == Raise("ValueError", "Input DataFrame is empty or None.", <<>>)

\* _filter_by_month: the rows, or the error
\* m = df["Date"].dt.to_period("M").astype(str); df[m == month]
MonthRows(rows, month) == SelectSeq(rows, LAMBDA r : PeriodStr(r.Date) = month)

_filter_by_month(d, month) ==
    IF ValidateRaises(d) THEN EmptyFrameError
    ELSE IF MonthRows(d.rows, month) = <<>>
    THEN Raise("ValueError", "No data available for month: ", <<month>>)
    ELSE Return(MonthRows(d.rows, month))

\* Series.sum of the Amount column
RECURSIVE SumAmount(_)
SumAmount(rows) ==
    IF rows = <<>> THEN 0 ELSE Head(rows).Amount + SumAmount(Tail(rows))

\* the columns with integer values; the other group keys are text
IntColumns == {"Week_Number", "Day"}

ColumnNames ==
    {"Date", "Merchant", "Type", "Amount", "Month", "Day", "Day_Of_Week",
     "Week_Number", "SpendBucket", "Category", "Is_Weekend", "Day_Type"}

\* groupby drops the rows whose key is missing (dropna=True)
IsNullKey(col, v) == IF col \in IntColumns THEN v = NA ELSE v = NaN

KeyLess(col, a, b) == IF col \in IntColumns THEN a < b ELSE StrLess(a, b)

RECURSIVE SortKeys(_, _)
SortKeys(S, col) ==
    IF S = {} THEN <<>>
    ELSE LET k == CHOOSE x \in S : \A y \in S \ {x} : KeyLess(col, x, y)
         IN  <<k>> \o SortKeys(S \ {k}, col)

\* the distinct keys in the order of their first row (groupby(sort=False))
RECURSIVE EncounterKeys(_, _)
EncounterKeys(rows, col) ==
    IF rows = <<>> THEN <<>>
    ELSE LET rest == EncounterKeys(SubSeq(rows, 1, Len(rows) - 1), col)
             k == rows[Len(rows)][col]
         IN  IF IsNullKey(col, k) \/ k \in Range(rest) THEN rest
             ELSE Append(rest, k)

\* the group keys of df.groupby(col): distinct, not missing, sorted
GroupKeys(rows, col) ==
    SortKeys({ rows[i][col] : i \in { j \in 1..Len(rows) : ~IsNullKey(col, rows[j][col]) } },
             col)

\* df.groupby(col): the groups in key order
GroupBy(rows, col) ==
    LET keys == GroupKeys(rows, col)
    IN  [i \in 1..Len(keys) |->
            [key |-> keys[i],
             rows |-> SelectSeq(rows, LAMBDA r : r[col] = keys[i])]]

\* df.groupby(col)["Amount"].sum(): <<key, sum>> in key order
GroupSum(rows, col) ==
    LET g == GroupBy(rows, col)
    IN  [i \in 1..Len(g) |-> [key |-> g[i].key, value |-> SumAmount(g[i].rows)]]

\* Series.max
SeriesMax(s) == CHOOSE v \in { s[i].value : i \in 1..Len(s) } :
                    \A i \in 1..Len(s) : s[i].value <= v

\* Series.idxmax: the label of the first maximum
IdxMax(s) ==
    s[CHOOSE i \in 1..Len(s) :
        /\ s[i].value = SeriesMax(s)
        /\ \A j \in 1..(i - 1) : s[j].value # SeriesMax(s)].key

\* idxmax of an empty series
ArgMaxError == Raise("ValueError", "attempt to get argmax of an empty sequence", <<>>)

total_spend_in_month(d, month) ==
    LET f == _filter_by_month(d, month)
    IN  IF f.raised # "" THEN f ELSE Return(SumAmount(f.value))

transaction_count_in_month(d, month) ==
    LET f == _filter_by_month(d, month)
    IN  IF f.raised # "" THEN f ELSE Return(Len(f.value))

\* the mean as the fraction sum / count
average_transaction_in_month(d, month) ==
    LET f == _filter_by_month(d, month)
    IN  IF f.raised # "" THEN f
        ELSE Return([num |-> SumAmount(f.value), den |-> Len(f.value)])

\* the comparison date <= date of pandas: false when either side is NaT
DateLeq(a, b) ==
    /\ a # NaT
    /\ b # NaT
    /\ Ordinal(a.year, a.month, a.day) <= Ordinal(b.year, b.month, b.day)

\* a range that leaves out its end date
RangeRowsOpenEnd(rows, start_date, end_date) ==
    SelectSeq(rows, LAMBDA r : DateLeq(start_date, r.Date)
                                  /\ DateLeq(r.Date, end_date)
                                  /\ r.Date # end_date)

\* df[(df["Date"] >= start_date) & (df["Date"] <= end_date)]
RangeRows(rows, start_date, end_date) ==
    SelectSeq(rows, LAMBDA r : DateLeq(start_date, r.Date)
                                  /\ DateLeq(r.Date, end_date))

\* insights.py lines 22-29
_filter_by_date_range(d, start_date, end_date) ==
    IF ValidateRaises(d) THEN EmptyFrameError
    ELSE IF DateLeq(end_date, start_date) /\ start_date # end_date
    THEN Raise("ValueError", "start_date must be before end_date.", <<>>)
    ELSE IF RangeRows(d.rows, start_date, end_date) = <<>>
    THEN Raise("ValueError", "No data available for selected date range.", <<>>)
    ELSE Return(RangeRows(d.rows, start_date, end_date))

\* insights.py lines 51-54
total_spend_in_date_range(d, start_date, end_date) ==
    LET f == _filter_by_date_range(d, start_date, end_date)
    IN  IF f.raised # "" THEN f ELSE Return(SumAmount(f.value))

\* the pattern of lines 62-66, 80-84 and 112-116
TopOf(d, month, col) ==
    LET f == _filter_by_month(d, month)
    IN  IF f.raised # "" THEN f
        ELSE LET grp == GroupSum(f.value, col)
             IN  IF grp = <<>> THEN ArgMaxError
                 ELSE Return([key |-> IdxMax(grp), amount |-> SeriesMax(grp)])

top_merchant_in_month(d, month) == TopOf(d, month, "Merchant")

top_category_in_month(d, month) == TopOf(d, month, "Category")

highest_spending_week_in_month(d, month) == TopOf(d, month, "Week_Number")

\* "if month": None and the empty string are falsy
Truthy(month) == month # None /\ month # <<>>

\* grp.get(label, 0.0)
SeriesGet(s, label) ==
    IF \E i \in 1..Len(s) : s[i].key = label
    THEN s[CHOOSE i \in 1..Len(s) : s[i].key = label].value
    ELSE 0

\* the comparison of line 97 made with >=
DominantOnTie(weekend, weekday) == IF weekend >= weekday THEN Weekend ELSE Weekday

\* line 97
Dominant(weekend, weekday) == IF weekend > weekday THEN Weekend ELSE Weekday

weekend_vs_weekday_spend(d, month) ==
    LET f == IF Truthy(month) THEN _filter_by_month(d, month) ELSE Return(d.rows)
    IN  IF f.raised # "" THEN f
        ELSE IF d.none
        THEN Raise("AttributeError", "'NoneType' object has no attribute 'groupby'", <<>>)
        ELSE LET grp == GroupSum(f.value, "Day_Type")
                 weekend == SeriesGet(grp, Weekend)
                 weekday == SeriesGet(grp, Weekday)
             IN  Return([Weekend |-> weekend, Weekday |-> weekday,
                         dominant |-> Dominant(weekend, weekday)])

Metrics == {"sum", "count", "mean"}

\* the metric applied to one group, charts.py lines 147-152
MetricOf(rows, metric) ==
    IF metric = "sum" THEN SumAmount(rows)
    ELSE IF metric = "count" THEN Len(rows)
    ELSE [num |-> SumAmount(rows), den |-> Len(rows)]

\* charts.py lines 136-154; grouping by a name that is no column is a KeyError
aggregate_data(d, group_by, metric) ==
    IF ValidateRaises(d) THEN EmptyFrameError
    ELSE IF metric \notin Metrics
    THEN Raise("ValueError", "metric must be one of: 'sum', 'count', 'mean'", <<>>)
    ELSE IF group_by \notin ColumnNames
    THEN Raise("KeyError", "", <<group_by>>)
    ELSE LET g == GroupBy(d.rows, group_by)
         IN  Return([i \in 1..Len(g) |->
                        [key |-> g[i].key, value |-> MetricOf(g[i].rows, metric)]])

-----------------------------------------------------------------------------
(* The documents the extraction is run on *)

\* "Jan 5, 2025 Paid to Swiggy Order DEBIT ₹500"
LineSwiggy ==
    <<"J", "a", "n", " ", "5", ",", " ", "2", "0", "2", "5", " ", "P", "a",
      "i", "d", " ", "t", "o", " ", "S", "w", "i", "g", "g", "y", " ", "O",
      "r", "d", "e", "r", " ", "D", "E", "B", "I", "T", " ", "₹", "5", "0",
      "0">>

\* "Jan 31, 2025 Paid to Salary Corp CREDIT ₹2000"
LineSalary ==
    <<"J", "a", "n", " ", "3", "1", ",", " ", "2", "0", "2", "5", " ", "P",
      "a", "i", "d", " ", "t", "o", " ", "S", "a", "l", "a", "r", "y", " ",
      "C", "o", "r", "p", " ", "C", "R", "E", "D", "I", "T", " ", "₹", "2",
      "0", "0", "0">>

\* "Page 12 of 20"
LineFooter ==
    <<"P", "a", "g", "e", " ", "1", "2", " ", "o", "f", " ", "2", "0">>

\* "Feb 10, 2025 Paid to Uber DEBIT ₹,"
LineCommaOnly ==
    <<"F", "e", "b", " ", "1", "0", ",", " ", "2", "0", "2", "5", " ", "P",
      "a", "i", "d", " ", "t", "o", " ", "U", "b", "e", "r", " ", "D", "E",
      "B", "I", "T", " ", "₹", ",">>

\* "Mar 15, 2025 Paid to  Cafe X  DEBIT₹1,250"
LineCafe ==
    <<"M", "a", "r", " ", "1", "5", ",", " ", "2", "0", "2", "5", " ", "P",
      "a", "i", "d", " ", "t", "o", " ", " ", "C", "a", "f", "e", " ", "X",
      " ", " ", "D", "E", "B", "I", "T", "₹", "1", ",", "2", "5", "0">>

\* "Sept 07, 2025 Received from Bob"
LineReceived ==
    <<"S", "e", "p", "t", " ", "0", "7", ",", " ", "2", "0", "2", "5", " ",
      "R", "e", "c", "e", "i", "v", "e", "d", " ", "f", "r", "o", "m", " ",
      "B", "o", "b">>

LinePool ==
    {LineSwiggy, LineSalary, LineFooter, LineCommaOnly, LineCafe, LineReceived}

MaxPages == 2

MaxLines == 2

SeqsOf(S, lo, hi) == UNION { [1..n -> S] : n \in lo..hi }

\* str.split('\n') never returns an empty list: a page has at least one line
Documents == SeqsOf(SeqsOf(LinePool, 1, MaxLines), 0, MaxPages)

\* no extraction is running
IdleExtract ==
    /\ pages = <<>>
    /\ pageIdx = 1
    /\ lineIdx = 1
    /\ transactions = <<>>
    /\ pc = "idle"
    /\ csv = EmptyFile
    /\ raw_df = <<>>
    /\ error = ""

NoResult == [op |-> "none"]

\* no dataset is loaded and no query was made
IdleInsights ==
    /\ input_df = <<>>
    /\ map_arg = NoTable
    /\ df = NoneFrame
    /\ result = NoResult

IdleBucket == bucket_arg = 0 /\ bucket_out = <<>>

IdleCategory == cat_merchant = <<>> /\ cat_rules = <<>> /\ cat_out = <<>>

IdleFloat == float_arg = NanCell /\ float_out = NoResult

\* the uploader holds no file
NoFile == [given |-> FALSE, pages |-> <<>>]

\* what a script run rendered: the view, and whether the charts and queries
\* of a section were run for it, on a dataset that was None or not
View(name) == [view |-> name, charts |-> FALSE, none |-> FALSE]

\* the session as the first script run leaves it, app.py lines 36-40
IdleApp ==
    /\ page = "landing"
    /\ uploaded_file = NoFile
    /\ section = "Dashboard"
    /\ run = "idle"
    /\ event = "none"
    /\ shown = View("landing")

\* the parts of the state the calls made on their own do not use
IdleRest == IdleFloat /\ IdleApp

InitExtract ==
    /\ pages \in Documents
    /\ pageIdx = 1
    /\ lineIdx = 1
    /\ transactions = <<>>
    /\ pc = "scan"
    /\ csv = EmptyFile
    /\ raw_df = <<>>
    /\ error = ""
    /\ IdleInsights
    /\ IdleBucket
    /\ IdleCategory
    /\ IdleRest

NextExtract == ScanLine \/ WriteCsv \/ ReadCsv

SpecExtract == InitExtract /\ [][NextExtract]_vars

\* the lines of the document in encounter order
RECURSIVE Flatten(_)
Flatten(ps) == IF ps = <<>> THEN <<>> ELSE Head(ps) \o Flatten(Tail(ps))


-----------------------------------------------------------------------------
(* map_spend_bucket and map_category called on their own *)

\* amounts from -NegRupees to MaxRupees rupees, every paise of them
MaxRupees == 1002

NegRupees == 2

AmountRange == (0 - Rupees(NegRupees))..Rupees(MaxRupees)

InitBucket ==
    /\ bucket_arg \in AmountRange
    /\ bucket_out = <<>>
    /\ IdleExtract
    /\ IdleInsights
    /\ IdleCategory
    /\ IdleRest

MapSpendBucket ==
    /\ bucket_out = <<>>
    /\ bucket_out' = map_spend_bucket(bucket_arg)
    /\ UNCHANGED <<bucket_arg, extractVars, insightVars, categoryVars, floatVars, appVars>>

NextBucket == MapSpendBucket

SpecBucket == InitBucket /\ [][NextBucket]_vars

\* the merchants map_category is called on
MerchantPool ==
    { <<"S", "w", "i", "g", "g", "y", " ", "O", "r", "d", "e", "r", " ", "#", "1",
        "2", "3">>,
      <<"R", "a", "n", "d", "o", "m", " ", "V", "e", "n", "d", "o", "r", " ", "C",
        "o">>,
      <<"U", "B", "E", "R", " ", "t", "r", "i", "p">>,
      <<"o", "l", "a", " ", "c", "a", "b", "s", " ", "a", "m", "a", "z", "o", "n">>,
      <<"T", "e", "a", " ", "S", "t", "a", "l", "l">>,
      <<"C", "o", "l", "a", " ", "S", "h", "o", "p">>,
      <<>>,
      <<"H", "O", "T", "E", "L", " ", "T", "a", "j">>,
      <<"N", "e", "t", "f", "l", "i", "x", ".", "c", "o", "m">>,
      <<"A", "p", "o", "l", "l", "o", " ", "P", "h", "a", "r", "m", "a", "c", "y">> }

\* the rule tables map_category is called with: the default, the empty table,
\* a keyword written with a capital, overlapping keywords in both orders
RuleTables ==
    { DEFAULT_CATEGORY_MAP,
      <<>>,
      << <<<<"S", "w", "i", "g", "g", "y">>, Food>> >>,
      << <<<<"a", "m", "a", "z", "o", "n">>, Shopping>>, <<<<"o", "l", "a">>, Transport>> >>,
      << <<<<"o", "l", "a">>, Transport>>, <<<<"a", "m", "a", "z", "o", "n">>, Shopping>> >>,
      << <<<<"U", "B", "E", "R">>, Transport>>, <<<<"u", "b", "e", "r">>, Personal>> >> }

InitCategory ==
    /\ cat_merchant \in MerchantPool
    /\ cat_rules \in RuleTables
    /\ cat_out = <<>>
    /\ IdleExtract
    /\ IdleInsights
    /\ IdleBucket
    /\ IdleRest

MapCategory ==
    /\ cat_out = <<>>
    /\ cat_out' = map_category(cat_merchant, cat_rules)
    /\ UNCHANGED <<cat_merchant, cat_rules, extractVars, insightVars, bucketVars,
                   floatVars, appVars>>

NextCategory == MapCategory

SpecCategory == InitCategory /\ [][NextCategory]_vars


-----------------------------------------------------------------------------
(* A dataset is enriched once and then queried *)

\* the raw rows the datasets are made of
RawRowPool ==
    {
      \* Jan 4, 2025: a Saturday
      [Date |-> <<"J", "a", "n", " ", "4", ",", " ", "2", "0", "2", "5">>,
       Merchant |-> <<"Z", "o", "m", "a", "t", "o">>,
       Type |-> DEBIT, Amount |-> FloatCell(Rupees(100))],
      \* Jan 6, 2025: a Monday
      [Date |-> <<"J", "a", "n", " ", "6", ",", " ", "2", "0", "2", "5">>,
       Merchant |-> <<"a", "m", "a", "z", "o", "n">>,
       Type |-> DEBIT, Amount |-> FloatCell(Rupees(100))],
      \* Jan 6, 2025: a Monday
      [Date |-> <<"J", "a", "n", " ", "6", ",", " ", "2", "0", "2", "5">>,
       Merchant |-> <<"U", "b", "e", "r", " ", " ", "T", "r", "i", "p">>,
       Type |-> DEBIT, Amount |-> FloatCell(Rupees(200))],
      \* Feb 30, 2025: no such day: the date does not parse
      [Date |-> <<"F", "e", "b", " ", "3", "0", ",", " ", "2", "0", "2", "5">>,
       Merchant |-> <<"T", "e", "a", " ", "S", "t", "a", "l", "l">>,
       Type |-> DEBIT, Amount |-> FloatCell(Rupees(50))],
      \* Feb 1, 2025: a Saturday
      [Date |-> <<"F", "e", "b", " ", "1", ",", " ", "2", "0", "2", "5">>,
       Merchant |-> <<"Z", "o", "m", "a", "t", "o">>,
       Type |-> CREDIT, Amount |-> FloatCell(Rupees(200))],
      \* Jan 5, 2025: a Sunday
      [Date |-> <<"J", "a", "n", " ", "5", ",", " ", "2", "0", "2", "5">>,
       Merchant |-> <<"S", "w", "i", "g", "g", "y", " ", "O", "r", "d", "e", "r">>,
       Type |-> DEBIT, Amount |-> FloatCell(Rupees(500))] }

MaxRows == 3

RawFrames == SeqsOf(RawRowPool, 0, MaxRows)

\* the first day of a month
FirstOf(y, m) == [year |-> y, month |-> m, day |-> 1]

\* the months asked about: two that the rows touch and one they do not
QueryMonths == {FirstOf(2025, 1), FirstOf(2025, 2), FirstOf(2025, 3)}

\* the month arguments: each month in the form "YYYY-MM" and in the form
\* "Mon-YYYY" of the Month column, and the text "NaT"
MonthArgs ==
    { PeriodStr(d) : d \in QueryMonths } \cup { MonthLabel(d) : d \in QueryMonths }
        \cup { PeriodStr(NaT) }

\* weekend_vs_weekday_spend also takes None (the default) and ""
OptionalMonthArgs == MonthArgs \cup {None, <<>>}

GroupArgs ==
    {"Category", "Merchant", "SpendBucket", "Day_Of_Week", "Week_Number", "Payee"}

MetricArgs == Metrics \cup {"median"}

\* the record of a call: the function, its arguments and its outcome
Query(op, d, month, group_by, metric, out) ==
    [op |-> op, d |-> d, month |-> month, group_by |-> group_by,
     metric |-> metric, out |-> out]

InitInsights ==
    /\ input_df \in RawFrames
    /\ map_arg = NoTable
    /\ df = NoneFrame
    /\ result = NoResult
    /\ IdleExtract
    /\ IdleBucket
    /\ IdleCategory
    /\ IdleRest

\* enrich(raw_df), app.py line 90: the input frame is copied, not changed
Enrich ==
    /\ df.none
    /\ df' = Frame(enrich(input_df, map_arg))
    /\ UNCHANGED <<input_df, map_arg, result>>
    /\ UNCHANGED <<extractVars, bucketVars, categoryVars, floatVars, appVars>>

\* a query reads the dataset and changes nothing
ReadOnly ==
    UNCHANGED <<input_df, map_arg, df, extractVars, bucketVars, categoryVars,
                floatVars, appVars>>

\* the queries change no state, so one query per behaviour reaches every
\* outcome: a query is made when none was made yet
NotAsked == result = NoResult

TotalSpendInMonth ==
    /\ NotAsked
    /\ \E month \in MonthArgs :
          result' = Query("total_spend_in_month", df, month, "", "",
                           total_spend_in_month(df, month))
    /\ ReadOnly

TransactionCountInMonth ==
    /\ NotAsked
    /\ \E month \in MonthArgs :
          result' = Query("transaction_count_in_month", df, month, "", "",
                           transaction_count_in_month(df, month))
    /\ ReadOnly

AverageTransactionInMonth ==
    /\ NotAsked
    /\ \E month \in MonthArgs :
          result' = Query("average_transaction_in_month", df, month, "", "",
                           average_transaction_in_month(df, month))
    /\ ReadOnly

TopMerchantInMonth ==
    /\ NotAsked
    /\ \E month \in MonthArgs :
          result' = Query("top_merchant_in_month", df, month, "", "",
                           top_merchant_in_month(df, month))
    /\ ReadOnly

TopCategoryInMonth ==
    /\ NotAsked
    /\ \E month \in MonthArgs :
          result' = Query("top_category_in_month", df, month, "", "",
                           top_category_in_month(df, month))
    /\ ReadOnly

HighestSpendingWeekInMonth ==
    /\ NotAsked
    /\ \E month \in MonthArgs :
          result' = Query("highest_spending_week_in_month", df, month, "", "",
                           highest_spending_week_in_month(df, month))
    /\ ReadOnly

WeekendVsWeekdaySpend ==
    /\ NotAsked
    /\ \E month \in OptionalMonthArgs :
          result' = Query("weekend_vs_weekday_spend", df, month, "", "",
                           weekend_vs_weekday_spend(df, month))
    /\ ReadOnly

\* the start and end dates asked about: two days the rows touch, one of them
\* next to a day they touch, and a later day
DateArgs ==
    { [year |-> 2025, month |-> 1, day |-> 5],
      [year |-> 2025, month |-> 1, day |-> 6],
      [year |-> 2025, month |-> 2, day |-> 1] }

\* the record of a date-range call
RangeQuery(op, d, start_date, end_date, out) ==
    [op |-> op, d |-> d, start_date |-> start_date, end_date |-> end_date,
     out |-> out]

TotalSpendInDateRange ==
    /\ NotAsked
    /\ \E start_date \in DateArgs, end_date \in DateArgs :
          result' = RangeQuery("total_spend_in_date_range", df,
                                start_date, end_date,
                                total_spend_in_date_range(df, start_date, end_date))
    /\ ReadOnly

AggregateData ==
    /\ NotAsked
    /\ \E group_by \in GroupArgs, metric \in MetricArgs :
          result' = Query("aggregate_data", df, None, group_by, metric,
                           aggregate_data(df, group_by, metric))
    /\ ReadOnly

NextInsights ==
    \/ Enrich
    \/ TotalSpendInMonth
    \/ TransactionCountInMonth
    \/ AverageTransactionInMonth
    \/ TopMerchantInMonth
    \/ TopCategoryInMonth
    \/ HighestSpendingWeekInMonth
    \/ WeekendVsWeekdaySpend
    \/ TotalSpendInDateRange
    \/ AggregateData

SpecInsights == InitInsights /\ [][NextInsights]_vars


-----------------------------------------------------------------------------
(* enrich called with every kind of category_map argument *)

\* raw rows with cells that need cleaning: a missing merchant and a missing
\* amount, and a merchant with blanks and an amount written as text
DirtyRows ==
    { [Date |-> <<"F", "o", "o", " ", "1", "2", ",", " ", "2", "0", "2", "5">>,
       Merchant |-> NaN,
       Type |-> DEBIT, Amount |-> NanCell],
      [Date |-> <<"J", "a", "n", " ", "3", "1", ",", " ", "2", "0", "2", "5">>,
       Merchant |-> <<" ", " ", "S", "w", "i", "g", "g", "y", " ", " ", " ", "O", "r", "d", "e", "r", " ">>,
       Type |-> DEBIT,
       Amount |-> StrCell(<<"₹", "1", ",", "2", "3", "4", ".", "5", "0">>)] }

EnrichRowPool == RawRowPool \cup DirtyRows

\* the category_map arguments: None (the default), the empty table, and a
\* table of the caller's
CallerTable ==
    << <<<<"t", "e", "a">>, Personal>>,
       <<<<"s", "w", "i", "g", "g", "y">>, Shopping>> >>

EnrichTables == {NoTable, Table(<<>>), Table(CallerTable)}

InitEnrich ==
    /\ input_df \in SeqsOf(EnrichRowPool, 0, MaxRows)
    /\ map_arg \in EnrichTables
    /\ df = NoneFrame
    /\ result = NoResult
    /\ IdleExtract
    /\ IdleBucket
    /\ IdleCategory
    /\ IdleRest

NextEnrich == Enrich

SpecEnrich == InitEnrich /\ [][NextEnrich]_vars

-----------------------------------------------------------------------------
(* safe_to_float called on its own and through enrich *)

MaxFloatLen == 3

\* the characters the texts are made of: digits, the two signs float reads,
\* and two characters the substitution removes
FloatAlphabet == {"1", "5", ".", "-", ",", Rupee}

\* "₹1,234.50"
TextRupees == <<"₹", "1", ",", "2", "3", "4", ".", "5", "0">>

\* the float cells: negative, zero, whole and fractional amounts
FloatAmounts == {-150, 0, 5, 50, 1250, Rupees(1234) + 50}

FloatInputs ==
    {NanCell}
        \cup { FloatCell(a) : a \in FloatAmounts }
        \cup { StrCell(t) : t \in SeqsOf(FloatAlphabet, 0, MaxFloatLen) }
        \cup { StrCell(TextRupees) }

InitFloat ==
    /\ float_arg \in FloatInputs
    /\ float_out = NoResult
    /\ IdleExtract
    /\ IdleInsights
    /\ IdleBucket
    /\ IdleCategory
    /\ IdleApp

SafeToFloat ==
    /\ float_out = NoResult
    /\ float_out' = [op |-> "safe_to_float", value |-> safe_to_float(float_arg)]
    /\ UNCHANGED <<float_arg, extractVars, insightVars, bucketVars, categoryVars,
                   appVars>>

\* a raw row with the cell as its Amount
RowWithAmount(cell) ==
    [Date |-> <<"J", "a", "n", " ", "5", ",", " ", "2", "0", "2", "5">>,
     Merchant |-> Food, Type |-> DEBIT, Amount |-> cell]

\* enrich of a one-row dataset: line 132 applies safe_to_float to the Amount
EnrichAmount ==
    /\ float_out = NoResult
    /\ float_out' = [op |-> "enrich",
                     value |-> enrich(<<RowWithAmount(float_arg)>>, NoTable)[1].Amount]
    /\ UNCHANGED <<float_arg, extractVars, insightVars, bucketVars, categoryVars,
                   appVars>>

NextFloat == SafeToFloat \/ EnrichAmount

SpecFloat == InitFloat /\ [][NextFloat]_vars

-----------------------------------------------------------------------------
(* The session of app.py: one user, one st.session_state *)

\* the files a user uploads: one transaction; two transactions with a footer
\* page; a footer only; an amount float() rejects
FilePool ==
    { << <<LineSwiggy>> >>,
      << <<LineSalary, LineCafe>>, <<LineFooter>> >>,
      << <<LineFooter>> >>,
      << <<LineSwiggy, LineCommaOnly>> >> }

File(ps) == [given |-> TRUE, pages |-> ps]

\* the options of the sidebar radio, app.py lines 164-167
Sections == {"Dashboard", "Explore", "Quick Insights", "Data View"}

\* the frame read from the CSV, as enrich receives it: Amount is a float
Cells(frame) ==
    [i \in 1..Len(frame) |-> [frame[i] EXCEPT !.Amount = FloatCell(@)]]

\* a dataset that stays in the session
KeptDf(d) == d

\* st.session_state.df = None, app.py line 160
ClearedDf(d) == NoneFrame

\* the local variables of the extraction are gone when the script run ends
ExtractionEnds ==
    /\ pages' = <<>>
    /\ pageIdx' = 1
    /\ lineIdx' = 1
    /\ transactions' = <<>>
    /\ pc' = "idle"
    /\ csv' = EmptyFile
    /\ raw_df' = <<>>
    /\ error' = ""

AppFrame == UNCHANGED <<input_df, map_arg, result, bucketVars, categoryVars, floatVars>>

InitApp ==
    /\ IdleApp
    /\ IdleExtract
    /\ IdleInsights
    /\ IdleBucket
    /\ IdleCategory
    /\ IdleFloat

\* the user puts a file into the uploader or takes it out (lines 68-71); the
\* script runs again
ChooseFile ==
    /\ run = "idle"
    /\ page = "landing"
    /\ \E f \in { File(ps) : ps \in FilePool } \cup {NoFile} :
          /\ f # uploaded_file
          /\ uploaded_file' = f
    /\ event' = "choose_file"
    /\ run' = "render"
    /\ UNCHANGED <<page, df, section, shown, extractVars>>
    /\ AppFrame

\* Analyze with no file: the warning and the return of lines 76-78
AnalyzeNoFile ==
    /\ run = "idle"
    /\ page = "landing"
    /\ uploaded_file = NoFile
    /\ event' = "analyze"
    /\ shown' = View("upload_warning")
    /\ UNCHANGED <<page, df, uploaded_file, section, run, extractVars>>
    /\ AppFrame

\* Analyze with a file: the call of pdf_to_dataframe begins (lines 80-87)
AnalyzeStart ==
    /\ run = "idle"
    /\ page = "landing"
    /\ uploaded_file # NoFile
    /\ event' = "analyze"
    /\ run' = "analyzing"
    /\ pages' = uploaded_file.pages
    /\ pc' = "scan"
    /\ UNCHANGED <<pageIdx, lineIdx, transactions, csv, raw_df, error>>
    /\ UNCHANGED <<page, df, uploaded_file, section, shown>>
    /\ AppFrame

\* pdf_to_dataframe raised: nothing catches it in lines 80-95, the script run
\* ends and Streamlit shows the exception
AnalyzeRaises ==
    /\ run = "analyzing"
    /\ pc = "raised"
    /\ shown' = View("exception")
    /\ run' = "idle"
    /\ ExtractionEnds
    /\ UNCHANGED <<page, df, uploaded_file, section, event>>
    /\ AppFrame

\* lines 90 and 93: enrich(raw_df) is stored in the session
AnalyzeStore ==
    /\ run = "analyzing"
    /\ pc = "done"
    /\ df' = Frame(enrich(Cells(raw_df), NoTable))
    /\ run' = "stored"
    /\ UNCHANGED <<page, uploaded_file, section, event, shown, extractVars>>
    /\ AppFrame

\* lines 94-95: the page is set and the script is run again; the widgets of
\* the landing page are gone and the radio starts at its first option
AnalyzeSetPage ==
    /\ run = "stored"
    /\ page' = "dashboard"
    /\ run' = "render"
    /\ uploaded_file' = NoFile
    /\ section' = "Dashboard"
    /\ ExtractionEnds
    /\ UNCHANGED <<df, event, shown>>
    /\ AppFrame

\* the user picks another section in the sidebar (lines 164-167)
Navigate ==
    /\ run = "idle"
    /\ page = "dashboard"
    /\ \E sec \in Sections \ {section} : section' = sec
    /\ event' = "navigate"
    /\ run' = "render"
    /\ UNCHANGED <<page, df, uploaded_file, shown, extractVars>>
    /\ AppFrame

\* "Upload Another PDF", lines 158-162
UploadAnother ==
    /\ run = "idle"
    /\ page = "dashboard"
    /\ df' = ClearedDf(df)
    /\ page' = "landing"
    /\ event' = "upload_another"
    /\ run' = "render"
    /\ UNCHANGED <<uploaded_file, section, shown, extractVars>>
    /\ AppFrame

\* the router of lines 466-469 and the page it renders; the dashboard stops
\* at the guard of lines 169-171 when there is no dataset, and runs the
\* charts and queries of the section otherwise
Render ==
    /\ run = "render"
    /\ shown' = IF page = "landing" THEN View("landing")
                ELSE IF df.none THEN View("no_data_warning")
                ELSE [view |-> section, charts |-> TRUE, none |-> df.none]
    /\ run' = "idle"
    /\ UNCHANGED <<page, df, uploaded_file, section, event, extractVars>>
    /\ AppFrame

NextApp ==
    \/ ChooseFile
    \/ AnalyzeNoFile
    \/ AnalyzeStart
    \/ ScanLine
    \/ WriteCsv
    \/ ReadCsv
    \/ AnalyzeRaises
    \/ AnalyzeStore
    \/ AnalyzeSetPage
    \/ Navigate
    \/ UploadAnother
    \/ Render

SpecApp == InitApp /\ [][NextApp]_vars

-----------------------------------------------------------------------------
(* Claims about the extraction *)

\* the coarse filter as the specification words it: 3-4 letters, a blank, a
\* day of one or two digits, and not the page-footer marker
StatedCoarse(line) ==
    /\ \E n \in {3, 4} :
          /\ Len(line) >= n + 2
          /\ \A i \in 1..n : IsAlpha(line[i])
          /\ IsSpace(line[n + 1])
          /\ IsDigit(line[n + 2])
    /\ ~StartsWith(line, PageMarker)

\* the records of the lines that pass the stated coarse filter and the strict
\* pattern, in encounter order
RECURSIVE StatedRecords(_)
StatedRecords(lines) ==
    IF lines = <<>> THEN <<>>
    ELSE (IF StatedCoarse(Head(lines)) /\ StrictMatch(Head(lines)).matched
          THEN <<Transaction(StrictMatch(Head(lines)))>> ELSE <<>>)
         \o StatedRecords(Tail(lines))

\* the lines that pass both stages of the code, in encounter order
BothStages(lines) ==
    SelectSeq(lines, LAMBDA l : PassesCoarse(l) /\ StrictMatch(l).matched)

ExampleDocument == <<<<LineSwiggy, LineSalary>>, <<LineFooter>>>>

\* C1: every line that starts with 3-4 letters and a day of one or two digits,
\* and not with "Page", passes the coarse filter and reaches the strict
\* matcher, so a finished scan holds one record per such line that the strict
\* pattern matches; the end-to-end example yields exactly 2 records.
C1_CoarseFilterAcceptsShortDay ==
    pc = "written" =>
        /\ Len(transactions) = Len(StatedRecords(Flatten(pages)))
        /\ (pages = ExampleDocument => Len(transactions) = 2)

\* C2: extraction never raises, and when the scan is over it holds exactly one
\* record per line that passes both stages, in encounter order.
C2_ExtractionTotalAndOrdered ==
    /\ error # "ValueError"
    /\ pc = "written" =>
          transactions =
              [i \in 1..Len(BothStages(Flatten(pages))) |->
                  Transaction(StrictMatch(BothStages(Flatten(pages))[i]))]

\* C3: when no line of the document matches the extraction pattern,
\* pdf_to_dataframe returns an empty record sequence and does not fail.
C3_EmptyInputYieldsEmptyFrame ==
    (pc \in {"done", "raised"} /\ BothStages(Flatten(pages)) = <<>>) =>
        (pc = "done" /\ raw_df = <<>>)


-----------------------------------------------------------------------------
(* Claims about the queries *)

MonthOps ==
    {"total_spend_in_month", "transaction_count_in_month",
     "average_transaction_in_month", "top_merchant_in_month",
     "top_category_in_month", "highest_spending_week_in_month",
     "weekend_vs_weekday_spend"}

\* the outcome of the month-scoped query op on dataset d for a month label
MonthQuery(op, d, month) ==
    CASE op = "total_spend_in_month" -> total_spend_in_month(d, month)
      [] op = "transaction_count_in_month" -> transaction_count_in_month(d, month)
      [] op = "average_transaction_in_month" -> average_transaction_in_month(d, month)
      [] op = "top_merchant_in_month" -> top_merchant_in_month(d, month)
      [] op = "top_category_in_month" -> top_category_in_month(d, month)
      [] op = "highest_spending_week_in_month" -> highest_spending_week_in_month(d, month)
      [] op = "weekend_vs_weekday_spend" -> weekend_vs_weekday_spend(d, month)

\* the rows whose Month column is the label
RowsLabelled(rows, label) == { i \in 1..Len(rows) : rows[i].Month = label }

\* C4: a month-scoped query called with the "Mon-YYYY" label of a month that
\* has rows (the value of the Month column, which the dashboard passes)
\* returns what the call with the "YYYY-MM" label of that month returns.
C4_MonthLabelFormsAgree ==
    (/\ result.op \in MonthOps
     /\ ~result.d.none
     /\ RowsLabelled(result.d.rows, result.month) # {}) =>
        LET i == CHOOSE j \in RowsLabelled(result.d.rows, result.month) : TRUE
        IN  /\ result.out.raised = ""
            /\ result.out = MonthQuery(result.op, result.d,
                                       PeriodStr(result.d.rows[i].Date))

\* the rows a query is about: the rows of the month, in either label form,
\* when a month is given, and all rows otherwise
StatedRows(d, month) ==
    IF d.none THEN <<>>
    ELSE IF Truthy(month)
    THEN SelectSeq(d.rows, LAMBDA r : PeriodStr(r.Date) = month \/ r.Month = month)
    ELSE d.rows

\* C5: no insight query returns a result computed over an empty set of rows:
\* it raises; for a month absent from a non-empty dataset the error is the
\* no-data error carrying the requested month.
C5_NoResultOverEmptyRows ==
    (result.op \in MonthOps /\ StatedRows(result.d, result.month) = <<>>) =>
        /\ result.out.raised # ""
        /\ (Truthy(result.month) /\ ~ValidateRaises(result.d)) =>
              result.out.message =
                  [text |-> "No data available for month: ", params |-> <<result.month>>]

RECURSIVE SumValues(_)
SumValues(series) ==
    IF series = <<>> THEN 0 ELSE Head(series).value + SumValues(Tail(series))

DocumentedGroupKeys ==
    {"Category", "Merchant", "SpendBucket", "Day_Of_Week", "Week_Number"}

\* C6: for a non-empty dataset and each documented group key, the values of
\* aggregate_data(df, key, 'sum') add up to the sum of Amount over all rows,
\* and those of metric 'count' to the number of rows.
C6_GroupingConservesTotal ==
    (/\ result.op = "aggregate_data"
     /\ ~ValidateRaises(result.d)
     /\ result.group_by \in DocumentedGroupKeys
     /\ result.metric \in {"sum", "count"}) =>
        /\ result.out.raised = ""
        /\ SumValues(result.out.value) =
              IF result.metric = "sum" THEN SumAmount(result.d.rows)
              ELSE Len(result.d.rows)

\* the summed Amount of the rows whose column col is k
KeyTotal(rows, col, k) == SumAmount(SelectSeq(rows, LAMBDA r : r[col] = k))

\* the position of the first row whose column col is k
FirstRow(rows, col, k) ==
    CHOOSE i \in 1..Len(rows) :
        /\ rows[i][col] = k
        /\ \A j \in 1..(i - 1) : rows[j][col] # k

TopOps == {"top_merchant_in_month", "top_category_in_month"}

TopColumn(op) == IF op = "top_merchant_in_month" THEN "Merchant" ELSE "Category"

\* the returned key has the maximum summed Amount of the month's rows
TopIsMaximal(q) ==
    LET rows == MonthRows(q.d.rows, q.month)
        col == TopColumn(q.op)
    IN  /\ \E i \in 1..Len(rows) : rows[i][col] = q.out.value.key
        /\ q.out.value.amount = KeyTotal(rows, col, q.out.value.key)
        /\ \A i \in 1..Len(rows) :
              KeyTotal(rows, col, rows[i][col]) <= q.out.value.amount

\* the keys of the month's rows that share the maximum with the returned one
TiedKeys(q) ==
    LET rows == MonthRows(q.d.rows, q.month)
        col == TopColumn(q.op)
    IN  { rows[i][col] : i \in { j \in 1..Len(rows) :
            KeyTotal(rows, col, rows[j][col]) = q.out.value.amount } }

\* C7 as claimed: the top merchant (category) has the maximum summed Amount,
\* and of several that share the maximum the one whose first row comes
\* earliest in dataset order is returned.
C7_TopTieFirstEncountered ==
    (result.op \in TopOps /\ result.out.raised = "") =>
        /\ TopIsMaximal(result)
        /\ \A k \in TiedKeys(result) :
              FirstRow(MonthRows(result.d.rows, result.month), TopColumn(result.op),
                       result.out.value.key)
                <= FirstRow(MonthRows(result.d.rows, result.month),
                            TopColumn(result.op), k)

\* C7 as amended: the top merchant (category) has the maximum summed Amount,
\* and of several that share the maximum the one that sorts first (by
\* codepoint, capitals before small letters) is returned.
C7_TopTieSmallestKey ==
    (result.op \in TopOps /\ result.out.raised = "") =>
        /\ TopIsMaximal(result)
        /\ \A k \in TiedKeys(result) :
              k = result.out.value.key \/ StrLess(result.out.value.key, k)

\* a tie was resolved against the key met first
C7_Witness ==
    /\ result.op \in TopOps
    /\ result.out.raised = ""
    /\ \E k \in TiedKeys(result) :
          FirstRow(MonthRows(result.d.rows, result.month), TopColumn(result.op), k)
            < FirstRow(MonthRows(result.d.rows, result.month), TopColumn(result.op),
                       result.out.value.key)

\* the rows weekend_vs_weekday_spend sums over
DayTypeRows(q) ==
    IF Truthy(q.month) THEN MonthRows(q.d.rows, q.month) ELSE q.d.rows

\* C8: Weekend and Weekday are the sums of Amount over the rows of each day
\* type (0 without rows), and dominant is Weekend iff the Weekend total is
\* strictly greater than the Weekday total, Weekday otherwise (also on a tie).
C8_WeekendVsWeekday ==
    (result.op = "weekend_vs_weekday_spend" /\ result.out.raised = "") =>
        LET v == result.out.value
        IN  /\ v.Weekend =
                  SumAmount(SelectSeq(DayTypeRows(result), LAMBDA r : r.Day_Type = Weekend))
            /\ v.Weekday =
                  SumAmount(SelectSeq(DayTypeRows(result), LAMBDA r : r.Day_Type = Weekday))
            /\ v.dominant \in {Weekend, Weekday}
            /\ v.dominant = Weekend <=> v.Weekend > v.Weekday

\* an exact tie of non-zero totals was answered with Weekday
C8_Witness ==
    /\ result.op = "weekend_vs_weekday_spend"
    /\ result.out.raised = ""
    /\ result.out.value.Weekend = result.out.value.Weekday
    /\ result.out.value.Weekend > 0
    /\ result.out.value.dominant = Weekday

-----------------------------------------------------------------------------
(* Claims about safe_to_float *)

NumericChars == Range(DigitChars) \cup {".", "-"}

\* what is left of a text when every character that is not a digit, '.' or
\* '-' is removed
RECURSIVE Remainder(_)
Remainder(s) ==
    IF s = <<>> THEN <<>>
    ELSE (IF Head(s) \in NumericChars THEN <<Head(s)>> ELSE <<>>)
         \o Remainder(Tail(s))

\* reading a remainder from left to right: a '-' is allowed in front only, a
\* '.' once; the digits before the '.' are rupees, the first two after it paise
ScanStart ==
    [ok |-> TRUE, at |-> 0, neg |-> FALSE, dot |-> FALSE, digits |-> 0,
     decimals |-> 0, paise |-> 0]

RECURSIVE Scan(_, _)
Scan(s, st) ==
    IF s = <<>> \/ ~st.ok THEN st
    ELSE LET c == Head(s)
             next == [st EXCEPT !.at = @ + 1]
         IN  IF c = "-"
             THEN Scan(Tail(s), [next EXCEPT !.ok = (st.at = 0), !.neg = TRUE])
             ELSE IF c = "."
             THEN Scan(Tail(s), [next EXCEPT !.ok = ~st.dot, !.dot = TRUE])
             ELSE IF ~st.dot
             THEN Scan(Tail(s), [next EXCEPT !.digits = @ + 1,
                                             !.paise = 10 * @ + 100 * DigitVal(c)])
             ELSE Scan(Tail(s), [next EXCEPT !.digits = @ + 1,
                                             !.decimals = @ + 1,
                                             !.paise = @ +
                                                 (IF st.decimals = 0 THEN 10 * DigitVal(c)
                                                  ELSE IF st.decimals = 1 THEN DigitVal(c)
                                                  ELSE 0)])

\* the remainder is a well-formed number
WellFormed(st) == st.ok /\ st.digits > 0

StatedValue(st) == IF st.neg THEN -st.paise ELSE st.paise

\* C12: safe_to_float gives 0.0 for a null input; for a text it removes every
\* character that is not a digit, '.' or '-' and gives the number the
\* remainder writes, and 0.0 when the remainder is empty or not a well-formed
\* number; a float is given back as it is; '₹1,234.50' gives 1234.50 and ''
\* gives 0.0.  The Amount of an enriched row is that number, never null.
\* (Amounts are in paise: the value is compared for up to two decimals.)
C12_SafeToFloat ==
    float_out # NoResult =>
        LET st == Scan(Remainder(float_arg.s), ScanStart)
        IN  /\ float_out.value \in Int
            /\ float_arg.kind = "nan" => float_out.value = 0
            /\ float_arg.kind = "float" => float_out.value = float_arg.v
            /\ (float_arg.kind = "str" /\ ~WellFormed(st)) => float_out.value = 0
            /\ (float_arg.kind = "str" /\ WellFormed(st) /\ st.decimals <= 2)
                  => float_out.value = StatedValue(st)
            /\ float_arg = StrCell(TextRupees) => float_out.value = Rupees(1234) + 50
            /\ float_arg = StrCell(<<>>) => float_out.value = 0
            /\ float_arg \in {StrCell(<<"-">>), StrCell(<<"1", "-", "5">>),
                              StrCell(<<"1", ".", ".">>)}
                  => float_out.value = 0

\* '₹1,234.50' was cleaned and read as 1234.50 by enrich
C12_Witness ==
    /\ float_arg = StrCell(TextRupees)
    /\ float_out # NoResult
    /\ float_out.op = "enrich"
    /\ float_out.value = Rupees(1234) + 50

-----------------------------------------------------------------------------
(* Claims about the errors of the query layer *)

\* C13: aggregate_data raises ValueError whenever the dataset is empty or
\* None, the metric is not one of sum, count, mean, or the group key is not a
\* supported group key name; otherwise it does not raise.
C13_AggregateValidationError ==
    result.op = "aggregate_data" =>
        IF \/ ValidateRaises(result.d)
           \/ result.metric \notin Metrics
           \/ result.group_by \notin DocumentedGroupKeys
        THEN result.out.raised = "ValueError"
        ELSE result.out.raised = ""

\* the day number of a date that is not null
DayNumber(date) == Ordinal(date.year, date.month, date.day)

\* the positions of the rows dated from start to end, both days included
Inside(rows, start_date, end_date) ==
    { i \in 1..Len(rows) :
        /\ rows[i].Date # NaT
        /\ DayNumber(start_date) <= DayNumber(rows[i].Date)
        /\ DayNumber(rows[i].Date) <= DayNumber(end_date) }

\* the summed Amount of the rows at the positions in S
RECURSIVE SumAt(_, _)
SumAt(rows, S) ==
    IF S = {} THEN 0
    ELSE LET i == CHOOSE x \in S : TRUE
         IN  rows[i].Amount + SumAt(rows, S \ {i})

\* C14: on a non-empty dataset total_spend_in_date_range raises the
\* validation error when start > end, whatever the rows; raises the no-data
\* error when start <= end and no row is dated within [start, end]; and
\* otherwise returns the sum of Amount over exactly the rows with
\* start <= Date <= end, rows with a null date left out.
C14_DateRange ==
    (result.op = "total_spend_in_date_range" /\ ~ValidateRaises(result.d)) =>
        LET rows == result.d.rows
            s == result.start_date
            e == result.end_date
        IN  IF DayNumber(s) > DayNumber(e)
            THEN /\ result.out.raised = "ValueError"
                 /\ result.out.message.text = "start_date must be before end_date."
            ELSE IF Inside(rows, s, e) = {}
            THEN /\ result.out.raised = "ValueError"
                 /\ result.out.message.text
                       = "No data available for selected date range."
            ELSE /\ result.out.raised = ""
                 /\ result.out.value = SumAt(rows, Inside(rows, s, e))

\* a one-day range answered with a total, over a dataset that also has a row
\* with a null date and a row dated outside the range
C14_Witness ==
    /\ result.op = "total_spend_in_date_range"
    /\ result.start_date = result.end_date
    /\ result.out.raised = ""
    /\ result.out.value > 0
    /\ \E i \in 1..Len(result.d.rows) : result.d.rows[i].Date = NaT
    /\ \E i \in 1..Len(result.d.rows) :
          /\ result.d.rows[i].Date # NaT
          /\ i \notin Inside(result.d.rows, result.start_date, result.end_date)

\* C15: every error raised over a non-empty dataset carries the offending
\* argument in its message: the month for a month query, the start and end
\* dates for a date-range query, the metric or the group key for
\* aggregate_data.
C15_ErrorsNameTheArgument ==
    (result # NoResult /\ result.out.raised # "" /\ ~ValidateRaises(result.d)) =>
        LET named == Range(result.out.message.params)
        IN  IF result.op = "total_spend_in_date_range"
            THEN result.start_date \in named /\ result.end_date \in named
            ELSE IF result.op = "aggregate_data"
            THEN IF result.metric \notin Metrics
                 THEN result.metric \in named
                 ELSE result.group_by \in named
            ELSE result.month \in named

-----------------------------------------------------------------------------
(* Claims about the session *)

\* no script run is under way: the session is as the last run left it
BetweenRuns == run \in {"idle", "render"}

\* C17: from page = landing, df = None, at the end of every script run
\* page = 'dashboard' exactly if df is not None; an Analyze that failed or had
\* no file leaves page = landing and df = None as they were; after Upload
\* Another PDF page = landing and df = None; the session holds one dataset or
\* none; the charts and queries of a section are never run with df = None.
C17_SessionStateMachine ==
    /\ page \in {"landing", "dashboard"}
    /\ BetweenRuns => (page = "dashboard" <=> ~df.none)
    /\ run = "analyzing" => (page = "landing" /\ df.none)
    /\ (run = "idle" /\ event = "analyze"
            /\ shown.view \in {"upload_warning", "exception"})
          => (page = "landing" /\ df.none)
    /\ (BetweenRuns /\ event = "upload_another") => (page = "landing" /\ df.none)
    /\ ~df.none => df.rows # <<>>
    /\ shown.charts => (~shown.none /\ shown.view \in Sections)

\* a second upload: the session went to the dashboard, back to the landing
\* page with no dataset, and an Analyze there failed
C17_Witness ==
    /\ run = "idle"
    /\ event = "analyze"
    /\ shown.view = "exception"
    /\ section # "Dashboard"
    /\ page = "landing"
    /\ df.none

-----------------------------------------------------------------------------
(* Claims about enrich *)

\* the positions of the raw rows whose date text does not parse
BadDateRows(frame) == { i \in 1..Len(frame) : ParseDate(frame[i].Date) = NaT }

\* the frame without the rows at the positions in S
RECURSIVE Without(_, _)
Without(frame, S) ==
    IF frame = <<>> THEN <<>>
    ELSE Without(SubSeq(frame, 1, Len(frame) - 1), S)
         \o (IF Len(frame) \in S THEN <<>> ELSE <<frame[Len(frame)]>>)

\* C11: a row whose date text cannot be parsed is kept and enriched to
\* Date = null, Day = 0, Day_Of_Week = "" (the empty string), Week_Number =
\* null, Is_Weekend = false, Day_Type = Weekday; the other rows are enriched
\* as if the bad rows were absent.
C11_NullDateDefaults ==
    ~df.none =>
        /\ Len(df.rows) = Len(input_df)
        /\ \A i \in BadDateRows(input_df) :
              /\ df.rows[i].Date = NaT
              /\ df.rows[i].Day = 0
              /\ df.rows[i].Day_Of_Week = <<>>
              /\ df.rows[i].Week_Number = NA
              /\ df.rows[i].Is_Weekend = FALSE
              /\ df.rows[i].Day_Type = Weekday
        /\ Without(df.rows, BadDateRows(input_df))
              = enrich(Without(input_df, BadDateRows(input_df)), map_arg)

\* the table the caller means: the one passed, the default when none is passed
StatedMap(arg) == IF arg.given THEN arg.table ELSE DEFAULT_CATEGORY_MAP

\* C16: every row's Category is map_category of the normalized merchant under
\* the table that was passed, the empty table included, and under the default
\* table only when none was passed; enrich returns as many rows, in order.
C16_SuppliedTableIsUsed ==
    ~df.none =>
        /\ Len(df.rows) = Len(input_df)
        /\ \A i \in 1..Len(input_df) :
              /\ df.rows[i].Merchant = normalize_merchant(input_df[i].Merchant)
              /\ df.rows[i].Category =
                    map_category(df.rows[i].Merchant, StatedMap(map_arg))

-----------------------------------------------------------------------------
(* Claims about map_spend_bucket and map_category *)

\* C9: every amount in [0, 300] is Small (300 included), every amount in
\* (300, 1000] is Medium (1000 included), every amount above 1000 is Large and
\* every negative amount is Unknown; so every amount gets exactly one label
\* and no non-negative amount is Unknown.
C9_SpendBucketRanges ==
    bucket_out # <<>> =>
        /\ (0 <= bucket_arg /\ bucket_arg <= Rupees(300)) => bucket_out = Small
        /\ (Rupees(300) < bucket_arg /\ bucket_arg <= Rupees(1000)) => bucket_out = Medium
        /\ Rupees(1000) < bucket_arg => bucket_out = Large
        /\ bucket_arg < 0 => bucket_out = Unknown
        /\ bucket_arg >= 0 => bucket_out # Unknown

\* the shared boundary 1000 was bucketed and went to the lower range
C9_Witness == bucket_arg = Rupees(1000) /\ bucket_out = Medium

\* map_category as the specification words it: the case of the merchant and
\* of the rule keyword is ignored
StatedCategory(m, table) ==
    LET hits == { i \in 1..Len(table) : Contains(Lower(m), Lower(table[i][1])) }
    IN  IF hits # {}
        THEN table[CHOOSE i \in hits : \A j \in hits : i <= j][2]
        ELSE IF \E i \in 1..Len(FoodKeywords) : Contains(Lower(m), FoodKeywords[i])
        THEN Food
        ELSE Other

\* C10: map_category returns the category of the first rule, in table order,
\* whose keyword occurs in the merchant with the case of both ignored, else
\* Food on a fallback food keyword, else Other.
C10_CategoryFirstRuleAnyCase ==
    cat_out # <<>> => cat_out = StatedCategory(cat_merchant, cat_rules)

=============================================================================
